---- MODULE Spec2Model ----
(***************************************************************************)
(* RTSI (Rating Trend Strength Index) calculator,                          *)
(* src/algorithms/rtsi_calculator-20250608.py.                             *)
(*                                                                         *)
(* Number representation.  The program computes in floating point; the     *)
(* model computes the same quantities exactly, as integers and rationals:  *)
(*   rtsi              hundredths          (round(rtsi, 2)  * 100)         *)
(*   confidence        thousandths         (round(sig, 3)   * 1000)        *)
(*   r_squared         thousandths         (round(r2, 3)    * 1000)        *)
(*   slope (result)    ten-thousandths     (round(slope, 4) * 10000)       *)
(*   slope (internal)  a rational [num, den], den > 0                      *)
(*   significance      thousandths                                         *)
(*   calculation_time  milliseconds        ("0.001s" is 1)                 *)
(* Python's None is the empty tuple and a present value v is <<v>>.        *)
(* The p-value of stats.linregress is resolved to the brackets of a table  *)
(* of critical values of Student's t; the decision p_value < 0.05 is exact *)
(* to the table's precision.                                               *)
(*                                                                         *)
(* Environment.  The wall clock (datetime.now()) is an input of each call. *)
(* Whether the regression raises on a score sequence is fixed for a run:   *)
(* the variable failing holds the sequences on which it does.              *)
(*                                                                         *)
(* Specifications.  Spec is the RTSICalculator object and its methods.     *)
(* SpecScore, SpecTrend, SpecRank and SpecBatch each draw the arguments of *)
(* one module-level function and apply it.                                 *)
(* Rating symbols are written in pinyin: DaDuo = '大多' ... DaKong = '大空'. *)
(***************************************************************************)
EXTENDS Integers, Sequences, FiniteSets, TLC

VARIABLES
    pc,                \* "input": the arguments are drawn; "done": the call returned
    stock_ratings,     \* argument of calculate_rating_trend_strength_index
    result,            \* its return value
    arg_slope,         \* arguments of _determine_trend_direction
    arg_significance,
    trend_direction,   \* its return value
    rtsi_results,      \* arguments of get_rtsi_ranking / get_rtsi_statistics
    top_n,
    trend_filter,
    ranking,           \* return value of get_rtsi_ranking
    statistics,        \* return value of get_rtsi_statistics
    stock_data,        \* argument of batch_calculate_rtsi
    batch,             \* its outcome: the dict returned, or the exception raised
    rating_map,        \* RTSICalculator.rating_map
    min_data_points,   \* RTSICalculator.min_data_points
    calculation_count, \* RTSICalculator.calculation_count
    op,                \* the RTSICalculator method called last
    failing,           \* environment: the score sequences on which stats.linregress raises
    first_call         \* the first call of RTSICalculator.calculate: its argument and result

scoreVars == <<stock_ratings, result>>
trendVars == <<arg_slope, arg_significance, trend_direction>>
rankVars == <<rtsi_results, top_n, trend_filter, ranking, statistics>>
batchVars == <<stock_data, batch>>
objVars == <<rating_map, min_data_points, calculation_count, op, first_call>>
vars == <<pc, failing, scoreVars, trendVars, rankVars, batchVars, objVars>>

None == <<>>
Some(v) == <<v>>

\* ---------------------------------------------------------------- bounds
MaxLen == 6          \* longest rating sequence drawn
MaxElapsedMs == 1    \* largest elapsed wall-clock time of one call, in ms

\* ------------------------------------------------------- program constants
MinPoints == 5            \* "if len(scores) < 5"
RatingScaleMax == 7       \* rating_scale_max
PLevelPermille == 50      \* "p_value < 0.05"

\* ------------------------------------------------------------- arithmetic
Abs(x) == IF x < 0 THEN -x ELSE x

\* floor(num / den) for den > 0 and any sign of num
FloorDiv(num, den) == IF num >= 0 THEN num \div den ELSE -((-num + den - 1) \div den)

\* Python's round() of base + num/den: the nearest integer, ties to the even one
RoundFrom(base, num, den) ==
    LET q == base + FloorDiv(num, den)
        r == num - FloorDiv(num, den) * den
    IN  IF 2 * r < den THEN q
        ELSE IF 2 * r > den THEN q + 1
        ELSE IF q % 2 = 0 THEN q ELSE q + 1

RoundDiv(num, den) == RoundFrom(0, num, den)

RECURSIVE SumTo(_, _)
SumTo(f, n) == IF n = 0 THEN 0 ELSE f[n] + SumTo(f, n - 1)

\* --------------------------------------------------------- rating encoder
RATING_SCORE_MAP ==
    [k \in {"DaDuo", "ZhongDuo", "XiaoDuo", "WeiDuo",
            "WeiKong", "XiaoKong", "ZhongKong", "DaKong", "-"} |->
        CASE k = "DaDuo"     -> Some(7)
          [] k = "ZhongDuo"  -> Some(6)
          [] k = "XiaoDuo"   -> Some(5)
          [] k = "WeiDuo"    -> Some(4)
          [] k = "WeiKong"   -> Some(3)
          [] k = "XiaoKong"  -> Some(2)
          [] k = "ZhongKong" -> Some(1)
          [] k = "DaKong"    -> Some(0)
          [] k = "-"         -> None]

\* Mutant of MapRating: the placeholder '-' is scored 0 instead of dropped.
MapRating_ScoresPlaceholder(sym) ==
    IF sym = "-" THEN Some(0)
    ELSE IF sym \in DOMAIN RATING_SCORE_MAP THEN RATING_SCORE_MAP[sym] ELSE None

\* Series.map(dict): a key of the dict maps to its value, anything else to NaN
MapRating(sym) ==
    IF sym \in DOMAIN RATING_SCORE_MAP THEN RATING_SCORE_MAP[sym] ELSE None

IsValid(v) == v # None

\* stock_ratings.map(RATING_SCORE_MAP).dropna()
Scores(ratings) ==
    LET mapped == [i \in 1..Len(ratings) |-> MapRating(ratings[i])]
        kept == SelectSeq(mapped, IsValid)
    IN  [i \in 1..Len(kept) |-> kept[i][1]]

\* ------------------------------------------------------- trend regressor
\* Two-sided critical values of Student's t, as floor(100 * t^2), for the
\* p levels of PLevels, by degrees of freedom.
PLevels == <<500, 200, 100, 50, 20, 10, 1>>

TCrit2 ==
    [df \in 3..7 |->
        CASE df = 3 -> <<58, 268, 553, 1012, 2061, 3411, 16702>>
          [] df = 4 -> <<54, 235, 454, 770, 1403, 2119, 7413>>
          [] df = 5 -> <<52, 217, 406, 660, 1132, 1625, 4718>>
          [] df = 6 -> <<51, 207, 377, 598, 987, 1374, 3550>>
          [] df = 7 -> <<50, 200, 358, 559, 898, 1224, 2924>>]

\* The p-value in thousandths of the two-sided t test with t^2 = t2c / 100:
\* the lower end of the bracket of PLevels the true p-value lies in.
RECURSIVE PBracket(_, _, _)
PBracket(t2c, df, i) ==
    IF i > Len(PLevels) THEN 0
    ELSE IF t2c <= TCrit2[df][i] THEN PLevels[i]
    ELSE PBracket(t2c, df, i + 1)

PValue(t2c, df) == IF t2c = 0 THEN 1000 ELSE PBracket(t2c, df, 1)

\* stats.linregress(np.arange(n), scores)
linregress(scores) ==
    LET n == Len(scores)
        sx == SumTo([i \in 1..n |-> i - 1], n)
        sxx == SumTo([i \in 1..n |-> (i - 1) * (i - 1)], n)
        sy == SumTo(scores, n)
        sxy == SumTo([i \in 1..n |-> (i - 1) * scores[i]], n)
        syy == SumTo([i \in 1..n |-> scores[i] * scores[i]], n)
        dxx == n * sxx - sx * sx
        dxy == n * sxy - sx * sy
        dyy == n * syy - sy * sy
        degenerate == dxx * dyy = 0          \* r_den == 0.0  ->  r = 0.0
        r2num == IF degenerate THEN 0 ELSE dxy * dxy
        r2den == IF degenerate THEN 1 ELSE dxx * dyy
        df == n - 2
        t2c == IF r2num = r2den THEN -1      \* r = +-1: t is of the order 1e10
               ELSE (df * r2num * 100) \div (r2den - r2num)
    IN  [slope |-> [num |-> dxy, den |-> dxx],
         r2 |-> [num |-> r2num, den |-> r2den],
         p_value |-> IF t2c = -1 THEN 0 ELSE PValue(t2c, df)]

\* ------------------------------------------------------------ classifier
\* slope > c / 100, for a rational slope
SlopeAbove(slope, c) == 100 * slope.num > c * slope.den

\* slope < -c / 100
SlopeBelow(slope, c) == 100 * slope.num < -c * slope.den

\* Mutant of _determine_trend_direction: the weak rules are tried before the
\* moderate ones.
_determine_trend_direction_reordered(slope, significance) ==
    IF significance < 300 THEN "neutral"
    ELSE IF SlopeAbove(slope, 15) /\ significance > 700 THEN "strong_bull"
    ELSE IF SlopeAbove(slope, 3) THEN "weak_bull"
    ELSE IF SlopeAbove(slope, 8) /\ significance > 500 THEN "moderate_bull"
    ELSE IF SlopeBelow(slope, 15) /\ significance > 700 THEN "strong_bear"
    ELSE IF SlopeBelow(slope, 3) THEN "weak_bear"
    ELSE IF SlopeBelow(slope, 8) /\ significance > 500 THEN "moderate_bear"
    ELSE "neutral"

_determine_trend_direction(slope, significance) ==
    IF significance < 300 THEN "neutral"
    ELSE IF SlopeAbove(slope, 15) /\ significance > 700 THEN "strong_bull"
    ELSE IF SlopeAbove(slope, 8) /\ significance > 500 THEN "moderate_bull"
    ELSE IF SlopeAbove(slope, 3) THEN "weak_bull"
    ELSE IF SlopeBelow(slope, 15) /\ significance > 700 THEN "strong_bear"
    ELSE IF SlopeBelow(slope, 8) /\ significance > 500 THEN "moderate_bear"
    ELSE IF SlopeBelow(slope, 3) THEN "weak_bear"
    ELSE "neutral"

\* ---------------------------------------------------------------- scorer
_get_insufficient_data_result(data_points) ==
    [rtsi |-> 0, trend |-> "insufficient_data", confidence |-> 0, slope |-> 0,
     r_squared |-> 0, recent_score |-> None, score_change_5d |-> None,
     data_points |-> data_points, calculation_time |-> 1]

_calculate_score_change(scores, days) ==
    IF Len(scores) < days + 1 THEN None
    ELSE Some(scores[Len(scores)] - scores[Len(scores) - days])

\* (consistency * 0.4 + significance * 0.3 + amplitude * 0.3) * 100, in
\* hundredths: round(4000 * consistency + 3 * significance + 3000 * amplitude)
\* with consistency = r2.num / r2.den and amplitude = amp.num / amp.den.
RtsiHundredths(r2, significance, amp) ==
    LET q1 == (4000 * r2.num) \div r2.den
        r1 == (4000 * r2.num) % r2.den
        q2 == (3000 * amp.num) \div amp.den
        r2_ == (3000 * amp.num) % amp.den
    IN  RoundFrom(q1 + q2 + 3 * significance,
                  r1 * amp.den + r2_ * r2.den, r2.den * amp.den)

\* Mutant of Significance: no 0.05 threshold.
Significance_NoThreshold(p_value) == IF 1000 - p_value > 0 THEN 1000 - p_value ELSE 0

\* max(0, 1 - p_value) if p_value < 0.05 else 0
Significance(p_value) ==
    IF p_value < PLevelPermille
    THEN (IF 1000 - p_value > 0 THEN 1000 - p_value ELSE 0)
    ELSE 0

\* Mutant of Amplitude: not capped at 1.0.
Amplitude_NoCap(slope, n) == [num |-> Abs(slope.num) * n, den |-> slope.den * RatingScaleMax]

\* min(abs(slope) * len(scores) / rating_scale_max, 1.0)
Amplitude(slope, n) ==
    LET raw == [num |-> Abs(slope.num) * n, den |-> slope.den * RatingScaleMax]
    IN  IF raw.num >= raw.den THEN [num |-> 1, den |-> 1] ELSE raw

\* Lines 77-115: the body of the try block, for at least MinPoints scores.
ScoreSeries(scores, elapsed) ==
    LET n == Len(scores)
        reg == linregress(scores)
        slope == reg.slope
        consistency == reg.r2
        significance == Significance(reg.p_value)
        amplitude == Amplitude(slope, n)
    IN  [rtsi |-> RtsiHundredths(consistency, significance, amplitude),
         trend |-> _determine_trend_direction(slope, significance),
         confidence |-> significance,
         slope |-> RoundDiv(10000 * slope.num, slope.den),
         r_squared |-> RoundDiv(1000 * consistency.num, consistency.den),
         recent_score |-> IF n > 0 THEN Some(scores[n]) ELSE None,
         score_change_5d |-> _calculate_score_change(scores, 5),
         data_points |-> n,
         calculation_time |-> elapsed]

\* Lines 117-125: the except branch.
ErrorResult(scores, elapsed) ==
    [rtsi |-> 0, trend |-> "calculation_error", confidence |-> 0,
     error |-> "str(e)", data_points |-> Len(scores), calculation_time |-> elapsed]

\* ratings is None, or <<the rating sequence>>.  elapsed is what the clock
\* measured.  raising is the set of score sequences on which the regression
\* raises: it is a library call, and the scores come from a map that the
\* `config` module may override; with the built-in map the set is empty.
calculate_rating_trend_strength_index(ratings, elapsed, raising) ==
    IF ratings = None \/ Len(ratings[1]) = 0 THEN _get_insufficient_data_result(0)
    ELSE LET scores == Scores(ratings[1])
         IN  IF Len(scores) < MinPoints THEN _get_insufficient_data_result(Len(scores))
             ELSE IF scores \in raising THEN ErrorResult(scores, elapsed)
             ELSE ScoreSeries(scores, elapsed)

\* ------------------------------------------------------------- inputs
SampleSymbols == {"DaDuo", "WeiDuo", "DaKong", "-", "N/A"}

RatingSeqs == UNION {[1..n -> SampleSymbols] : n \in 0..MaxLen}

NoResult == [trend |-> "none"]

\* The variables a specification does not use keep these values.
IdleScore == stock_ratings = None /\ result = NoResult
IdleTrend == arg_slope = [num |-> 0, den |-> 1] /\ arg_significance = 0 /\ trend_direction = "none"
IdleRank == rtsi_results = <<>> /\ top_n = 0 /\ trend_filter = None /\ ranking = <<>>
               /\ statistics = [total_stocks |-> -1]
IdleBatch == stock_data = None /\ batch = [status |-> "none"]
SampleScores == {<<0, 0, 4, 7, 7>>, <<4, 4, 4, 4, 4>>}

IdleObj == rating_map = "RATING_SCORE_MAP" /\ min_data_points = MinPoints
              /\ calculation_count = 0 /\ op = "none" /\ first_call = None

\* ------------------------------------- specification of the scoring function
InitScore ==
    /\ pc = "input"
    /\ stock_ratings \in {None} \cup {Some(s) : s \in RatingSeqs}
    /\ failing \in {{}, SampleScores}
    /\ result = NoResult
    /\ IdleTrend /\ IdleRank /\ IdleBatch /\ IdleObj

Score ==
    /\ pc = "input"
    /\ \E elapsed \in 0..MaxElapsedMs :
          result' = calculate_rating_trend_strength_index(stock_ratings, elapsed, failing)
    /\ pc' = "done"
    /\ UNCHANGED <<stock_ratings, failing, trendVars, rankVars, batchVars, objVars>>

NextScore == Score

SpecScore == InitScore /\ [][NextScore]_vars

\* --------------------------------------- specification of the classifier
MaxSlopeC == 20      \* slopes drawn: -MaxSlopeC/100 .. MaxSlopeC/100

SignificanceGrid == {0, 100, 299, 300, 301, 400, 500, 501, 600, 700, 701, 950, 1000}

InitTrend ==
    /\ pc = "input"
    /\ arg_slope \in {[num |-> k, den |-> 100] : k \in -MaxSlopeC..MaxSlopeC}
    /\ arg_significance \in SignificanceGrid
    /\ trend_direction = "none"
    /\ failing = {}
    /\ IdleScore /\ IdleRank /\ IdleBatch /\ IdleObj

Classify ==
    /\ pc = "input"
    /\ trend_direction' = _determine_trend_direction(arg_slope, arg_significance)
    /\ pc' = "done"
    /\ UNCHANGED <<arg_slope, arg_significance, failing, scoreVars, rankVars, batchVars, objVars>>

NextTrend == Classify

SpecTrend == InitTrend /\ [][NextTrend]_vars

\* ------------------------------------------------------------- ranking
\* A result set is a dict: here the sequence of its (key, value) pairs in
\* insertion order, the keys pairwise distinct.
\* list.sort(key=lambda x: x[2], reverse=True): stable, descending by rtsi
\* Mutant of InsertDesc: an unstable sort (equal keys end in reverse order).
RECURSIVE InsertDesc_Unstable(_, _)
InsertDesc_Unstable(sorted, e) ==
    IF sorted = <<>> THEN <<e>>
    ELSE IF Head(sorted).rtsi > e.rtsi
         THEN <<Head(sorted)>> \o InsertDesc_Unstable(Tail(sorted), e)
    ELSE <<e>> \o sorted

RECURSIVE InsertDesc(_, _)
InsertDesc(sorted, e) ==
    IF sorted = <<>> THEN <<e>>
    ELSE IF Head(sorted).rtsi >= e.rtsi THEN <<Head(sorted)>> \o InsertDesc(Tail(sorted), e)
    ELSE <<e>> \o sorted

RECURSIVE SortDesc(_)
SortDesc(list) ==
    IF list = <<>> THEN <<>>
    ELSE InsertDesc(SortDesc(SubSeq(list, 1, Len(list) - 1)), list[Len(list)])

\* list[:k] of Python: a negative k counts from the end
SliceTo(list, k) ==
    IF k >= 0 THEN SubSeq(list, 1, IF k < Len(list) THEN k ELSE Len(list))
    ELSE SubSeq(list, 1, IF Len(list) + k > 0 THEN Len(list) + k ELSE 0)

\* word in trend, for word 'up' or 'down', over the labels that occur: the seven
\* categories, 'insufficient_data' and 'calculation_error', none of which
\* contains 'up' or 'down', and the labels of the filter's docstring,
\* 'strong_up' and 'strong_down', which do.

Contains(trend, word) ==
    \/ word = "up" /\ trend = "strong_up"
    \/ word = "down" /\ trend = "strong_down"

\* Lines 207-216: TRUE when the entry is skipped (continue)
FilteredOut(filter, trend) ==
    IF filter = None THEN FALSE
    ELSE IF filter[1] = "up" /\ ~Contains(trend, "up") THEN TRUE
    ELSE IF filter[1] = "down" /\ ~Contains(trend, "down") THEN TRUE
    ELSE IF filter[1] = "strong_up" /\ trend # "strong_up" THEN TRUE
    ELSE IF filter[1] = "strong_down" /\ trend # "strong_down" THEN TRUE
    ELSE FALSE

KeepsEntry(filter, e) == e.value.rtsi > 0 /\ ~FilteredOut(filter, e.value.trend)

get_rtsi_ranking(results, n, filter) ==
    IF results = <<>> THEN <<>>
    ELSE LET Keep(e) == KeepsEntry(filter, e)
             kept == SelectSeq(results, Keep)
             valid_results == [i \in 1..Len(kept) |->
                                 [stock_code |-> kept[i].key,
                                  stock_name |-> kept[i].value.stock_name,
                                  rtsi |-> kept[i].value.rtsi,
                                  trend |-> kept[i].value.trend,
                                  confidence |-> kept[i].value.confidence,
                                  recent_score |-> kept[i].value.recent_score]]
             top == SliceTo(SortDesc(valid_results), n)
         IN  [i \in 1..Len(top) |->
                 [stock_code |-> top[i].stock_code, stock_name |-> top[i].stock_name,
                  rtsi |-> top[i].rtsi, trend |-> top[i].trend]]

\* --------------------------------------------- specification of the ranking
MaxEntries == 3      \* most entries of a result set drawn
MaxTopN == 3         \* largest top_n drawn

EntryValues ==
    {[rtsi |-> v[1], trend |-> v[2], confidence |-> v[3], recent_score |-> Some(4),
      stock_name |-> "name"] :
        v \in {<<0, "insufficient_data", 0>>, <<0, "neutral", 0>>, <<2500, "neutral", 0>>,
               <<2500, "weak_bear", 980>>, <<6000, "strong_bull", 990>>,
               <<6000, "strong_bear", 990>>, <<4000, "strong_up", 990>>}}

StockCodes == <<"S1", "S2", "S3", "S4", "S5">>

ResultSets ==
    UNION {{[i \in 1..n |-> [key |-> StockCodes[i], value |-> f[i]]] : f \in [1..n -> EntryValues]} :
              n \in 0..MaxEntries}

TrendFilters ==
    {None, Some("up"), Some("down"), Some("strong_up"), Some("strong_down"),
     Some("strong_bull"), Some("weak_bear")}

InitRank ==
    /\ pc = "input"
    /\ rtsi_results \in ResultSets
    /\ top_n \in -1..MaxTopN
    /\ trend_filter \in TrendFilters
    /\ ranking = <<>>
    /\ statistics = [total_stocks |-> -1]
    /\ failing = {}
    /\ IdleScore /\ IdleTrend /\ IdleBatch /\ IdleObj

Rank ==
    /\ pc = "input"
    /\ ranking' = get_rtsi_ranking(rtsi_results, top_n, trend_filter)
    /\ pc' = "done"
    /\ UNCHANGED <<rtsi_results, top_n, trend_filter, statistics, failing,
                   scoreVars, trendVars, batchVars, objVars>>

NextRank == Rank

SpecRank == InitRank /\ [][NextRank]_vars

\* ------------------------------------------------------------ batch engine
\* A table: index (one label per row), columns (the names of the rating columns,
\* each the number its digit string reads as), has_code_col (whether the
\* identifier column exists) and rows, each with code, name, industry and
\* cells (column name -> rating symbol).  An index label is [is_int, num, str].

\* str(col).startswith('202'), for 8-digit names
IsDateColumn(col) == col \div 100000 = 202

RECURSIVE InsertAsc(_, _)
InsertAsc(sorted, c) ==
    IF sorted = <<>> THEN <<c>>
    ELSE IF Head(sorted) <= c THEN <<Head(sorted)>> \o InsertAsc(Tail(sorted), c)
    ELSE <<c>> \o sorted

RECURSIVE SortAsc(_)
SortAsc(list) ==
    IF list = <<>> THEN <<>>
    ELSE InsertAsc(SortAsc(SubSeq(list, 1, Len(list) - 1)), list[Len(list)])

\* Mutant of DictSet: a list append, which keeps an earlier entry of the key.
DictSet_Append(dict, key, value) == Append(dict, [key |-> key, value |-> value])

\* results[key] = value on a dict kept in insertion order
RECURSIVE DictSet(_, _, _)
DictSet(dict, key, value) ==
    IF dict = <<>> THEN <<[key |-> key, value |-> value]>>
    ELSE IF Head(dict).key = key THEN <<[key |-> key, value |-> value]>> \o Tail(dict)
    ELSE <<Head(dict)>> \o DictSet(Tail(dict), key, value)

\* str(row.get('股票代码', f'STOCK_{idx}'))
StockCode(table, i) ==
    IF table.has_code_col THEN table.rows[i].code ELSE "STOCK_" \o table.index[i].str

\* Lines 156-177 from row i on.  elapsed[i] is what the clock measured in the
\* scoring of row i.
RECURSIVE BatchLoop(_, _, _, _, _, _)
BatchLoop(table, date_columns, i, results, elapsed, raising) ==
    IF i > Len(table.rows) THEN [status |-> "returned", results |-> results]
    ELSE LET row == table.rows[i]
             ratings == [j \in 1..Len(date_columns) |-> row.cells[date_columns[j]]]
             rtsi_result ==
                 [stock_code |-> StockCode(table, i), stock_name |-> row.name,
                  industry |-> row.industry]
                 @@ calculate_rating_trend_strength_index(Some(ratings), elapsed[i], raising)
             stored == DictSet(results, StockCode(table, i), rtsi_result)
         IN  IF ~table.index[i].is_int        \* (idx + 1) % 1000
             THEN [status |-> "raised", error |-> "TypeError"]
             ELSE BatchLoop(table, date_columns, i + 1, stored, elapsed, raising)

\* batch_time is the elapsed time of the whole call, in clock ticks: 0 when the
\* clock did not advance between line 141 and line 179
batch_calculate_rtsi(data, elapsed, raising, batch_time) ==
    IF data = None \/ Len(data[1].rows) = 0 THEN [status |-> "returned", results |-> <<>>]
    ELSE LET table == data[1]
             date_columns == SortAsc(SelectSeq(table.columns, IsDateColumn))
             looped == BatchLoop(table, date_columns, 1, <<>>, elapsed, raising)
         IN  IF Len(date_columns) = 0 THEN [status |-> "returned", results |-> <<>>]
             ELSE IF looped.status = "raised" THEN looped
             ELSE IF batch_time = 0            \* len(results) / batch_time
             THEN [status |-> "raised", error |-> "ZeroDivisionError"]
             ELSE looped

\* ------------------------------------------ specification of the batch engine
MaxRows == 2         \* most rows of a table drawn

ColumnLists ==
    {<<>>, <<19990101>>,
     <<20250601, 20250602, 20250603, 20250604, 20250605>>,
     <<20250603, 20250601, 19990101, 20250602, 20250605, 20250604>>}

\* ratings by day of the month: rising, flat, too sparse
RowPatterns ==
    <<<<"DaKong", "DaKong", "WeiDuo", "DaDuo", "DaDuo">>,
      <<"WeiDuo", "WeiDuo", "WeiDuo", "WeiDuo", "WeiDuo">>,
      <<"DaDuo", "-", "-", "N/A", "DaKong">>>>

IndexLabels == <<"0", "1", "2", "3", "4", "5">>

RangeIndex(n) == [i \in 1..n |-> [is_int |-> TRUE, num |-> i - 1, str |-> IndexLabels[i]]]

LabelIndex(n) == [i \in 1..n |-> [is_int |-> FALSE, num |-> 0, str |-> "row" \o IndexLabels[i]]]

RowsOver(columns) ==
    {[code |-> c, name |-> "name", industry |-> "industry",
      cells |-> [col \in {columns[j] : j \in 1..Len(columns)} |-> RowPatterns[p][col % 100]]] :
        c \in {"000001", "000002"}, p \in 1..Len(RowPatterns)}

Tables ==
    UNION {UNION {{[index |-> ix, columns |-> cols, has_code_col |-> h, rows |-> rows] :
                      ix \in {RangeIndex(n), LabelIndex(n)}, h \in BOOLEAN,
                      rows \in [1..n -> RowsOver(cols)]} :
                  n \in 0..MaxRows} :
           cols \in ColumnLists}

InitBatch ==
    /\ pc = "input"
    /\ stock_data \in {None} \cup {Some(t) : t \in Tables}
    /\ batch = [status |-> "none"]
    /\ failing \in SUBSET SampleScores
    /\ IdleScore /\ IdleTrend /\ IdleRank /\ IdleObj

Batch ==
    /\ pc = "input"
    /\ \E batch_time \in 0..MaxElapsedMs, e \in 0..MaxElapsedMs :
          /\ e <= batch_time
          /\ batch' = batch_calculate_rtsi(stock_data, [i \in 1..MaxRows |-> e], failing,
                                           batch_time)
    /\ pc' = "done"
    /\ UNCHANGED <<stock_data, failing, scoreVars, trendVars, rankVars, objVars>>

NextBatch == Batch

SpecBatch == InitBatch /\ [][NextBatch]_vars

\* ------------------------------------------------------------ statistics
EmptyDict == <<>>

\* Lines 244-269.  A float is kept exact: rtsi_mean, rtsi_median and
\* success_rate are rationals [num, den], and rtsi_std is kept as its square.
get_rtsi_statistics(results) ==
    IF results = <<>> THEN EmptyDict
    ELSE LET IsValidEntry(e) == e.value.rtsi > 0
             kept == SelectSeq(results, IsValidEntry)
             n == Len(kept)
             valid_rtsi == [i \in 1..n |-> kept[i].value.rtsi]
             ordered == SortAsc(valid_rtsi)
             total == SumTo(valid_rtsi, n)
             squares == SumTo([i \in 1..n |-> valid_rtsi[i] * valid_rtsi[i]], n)
             trends == {results[i].value.trend : i \in 1..Len(results)}
             trend_counts ==
                 [t \in trends |-> Cardinality({i \in 1..Len(results) : results[i].value.trend = t})]
         IN  IF n = 0 THEN [total_stocks |-> Len(results), valid_calculations |-> 0]
             ELSE [total_stocks |-> Len(results),
                   valid_calculations |-> n,
                   success_rate |-> [num |-> n * 100, den |-> Len(results)],
                   rtsi_mean |-> [num |-> total, den |-> n],
                   rtsi_median |-> [num |-> ordered[(n + 1) \div 2] + ordered[n \div 2 + 1],
                                    den |-> 2],
                   rtsi_std_squared |-> [num |-> n * squares - total * total, den |-> n * n],
                   rtsi_max |-> ordered[n],
                   rtsi_min |-> ordered[1],
                   trend_distribution |-> trend_counts]

\* ------------------------------------------------------ RTSICalculator
MaxCount == 2        \* calculate is called while calculation_count < MaxCount

MinDataPointsDrawn == {3, MinPoints, 6}    \* constructor argument min_data_points

ObjRatings ==
    {None, Some(<<>>),
     Some(<<"DaKong", "WeiDuo", "-", "DaDuo", "DaDuo">>),
     Some(<<"DaKong", "DaKong", "WeiDuo", "DaDuo", "DaDuo">>),
     Some(<<"WeiDuo", "WeiDuo", "WeiDuo", "WeiDuo", "WeiDuo">>),
     Some(<<"WeiDuo", "WeiDuo", "N/A", "DaDuo", "DaKong", "DaDuo", "WeiDuo">>)}

ObjColumns == <<20250601, 20250602, 20250603, 20250604, 20250605>>

ObjRow(code, p) ==
    [code |-> code, name |-> "name", industry |-> "industry",
     cells |-> [col \in {ObjColumns[j] : j \in 1..Len(ObjColumns)} |-> RowPatterns[p][col % 100]]]

ObjTables ==
    {[index |-> RangeIndex(2), columns |-> ObjColumns, has_code_col |-> TRUE,
      rows |-> <<ObjRow("000001", 1), ObjRow("000002", 3)>>],
     [index |-> LabelIndex(2), columns |-> ObjColumns, has_code_col |-> TRUE,
      rows |-> <<ObjRow("000001", 1), ObjRow("000002", 2)>>],
     [index |-> RangeIndex(2), columns |-> <<>>, has_code_col |-> FALSE,
      rows |-> <<[code |-> "000001", name |-> "name", industry |-> "industry", cells |-> <<>>],
                 [code |-> "000001", name |-> "name", industry |-> "industry", cells |-> <<>>]>>]}

ObjEntry(rtsi, trend) ==
    [rtsi |-> rtsi, trend |-> trend, confidence |-> 0, recent_score |-> Some(4),
     stock_name |-> "name"]

ObjResultSets ==
    {<<>>,
     <<[key |-> "S1", value |-> ObjEntry(0, "insufficient_data")]>>,
     <<[key |-> "S1", value |-> ObjEntry(2500, "neutral")],
       [key |-> "S2", value |-> ObjEntry(6000, "strong_bull")]>>}

ObjTopN == {1, 50}

ObjFilters == {None, Some("up")}

\* The argument and return variables hold those of the latest call; a call
\* clears the ones of the other methods.
Init ==
    /\ pc = "object"
    /\ rating_map \in {"RATING_SCORE_MAP", "custom"}
    /\ min_data_points \in MinDataPointsDrawn
    /\ calculation_count = 0
    /\ op = "none"
    /\ first_call = None
    /\ failing \in {{}, {<<4, 4, 4, 4, 4>>}}
    /\ IdleScore /\ IdleTrend /\ IdleRank /\ IdleBatch

ClearScore == stock_ratings' = None /\ result' = NoResult

ClearRank ==
    /\ rtsi_results' = <<>> /\ top_n' = 0 /\ trend_filter' = None /\ ranking' = <<>>
    /\ statistics' = [total_stocks |-> -1]

ClearBatch == stock_data' = None /\ batch' = [status |-> "none"]

\* Mutant of calculate: the counter leaks into the result.
calculate_CounterInResult ==
    /\ calculation_count < MaxCount
    /\ \E r \in ObjRatings, elapsed \in 0..MaxElapsedMs :
          /\ stock_ratings' = r
          /\ result' = [calculate_rating_trend_strength_index(r, elapsed, failing)
                           EXCEPT !.data_points = @ + calculation_count]
    /\ calculation_count' = calculation_count + 1
    /\ first_call' = IF first_call = None
                     THEN Some([ratings |-> stock_ratings', result |-> result'])
                     ELSE first_call
    /\ op' = "calculate"
    /\ ClearRank /\ ClearBatch
    /\ UNCHANGED <<pc, failing, trendVars, rating_map, min_data_points>>

calculate ==
    /\ calculation_count < MaxCount
    /\ \E r \in ObjRatings, elapsed \in 0..MaxElapsedMs :
          /\ stock_ratings' = r
          /\ result' = calculate_rating_trend_strength_index(r, elapsed, failing)
    /\ calculation_count' = calculation_count + 1
    /\ first_call' = IF first_call = None
                     THEN Some([ratings |-> stock_ratings', result |-> result'])
                     ELSE first_call
    /\ op' = "calculate"
    /\ ClearRank /\ ClearBatch
    /\ UNCHANGED <<pc, failing, trendVars, rating_map, min_data_points>>

batch_calculate ==
    /\ \E t \in ObjTables, batch_time \in 0..MaxElapsedMs, e \in 0..MaxElapsedMs :
          /\ e <= batch_time
          /\ stock_data' = Some(t)
          /\ batch' = batch_calculate_rtsi(Some(t), [i \in 1..Len(t.rows) |-> e],
                                            failing, batch_time)
    /\ op' = "batch_calculate"
    /\ ClearScore /\ ClearRank
    /\ UNCHANGED <<pc, failing, trendVars, rating_map, min_data_points, calculation_count,
                   first_call>>

get_ranking ==
    /\ \E rs \in ObjResultSets, n \in ObjTopN, f \in ObjFilters :
          /\ rtsi_results' = rs /\ top_n' = n /\ trend_filter' = f
          /\ ranking' = get_rtsi_ranking(rs, n, f)
    /\ statistics' = [total_stocks |-> -1]
    /\ op' = "get_ranking"
    /\ ClearScore /\ ClearBatch
    /\ UNCHANGED <<pc, failing, trendVars, rating_map, min_data_points, calculation_count,
                   first_call>>

get_statistics ==
    /\ \E rs \in ObjResultSets :
          /\ rtsi_results' = rs
          /\ statistics' = get_rtsi_statistics(rs)
    /\ top_n' = 0 /\ trend_filter' = None /\ ranking' = <<>>
    /\ op' = "get_statistics"
    /\ ClearScore /\ ClearBatch
    /\ UNCHANGED <<pc, failing, trendVars, rating_map, min_data_points, calculation_count,
                   first_call>>

reset_counter ==
    /\ calculation_count' = 0
    /\ op' = "reset_counter"
    /\ ClearScore /\ ClearRank /\ ClearBatch
    /\ UNCHANGED <<pc, failing, trendVars, rating_map, min_data_points, first_call>>

Next == calculate \/ batch_calculate \/ get_ranking \/ get_statistics \/ reset_counter

Spec == Init /\ [][Next]_vars

\* ===================================================================
\* Properties of the scoring function (SpecScore)
\* ===================================================================
Tiers == {"DaDuo", "ZhongDuo", "XiaoDuo", "WeiDuo", "WeiKong", "XiaoKong", "ZhongKong", "DaKong"}

\* the number of entries of a rating sequence that carry one of the 8 tiers
ValidCount(ratings) ==
    IF ratings = None THEN 0
    ELSE Cardinality({i \in 1..Len(ratings[1]) : ratings[1][i] \in Tiers})

Scored(r) == r.trend \notin {"none", "insufficient_data", "calculation_error"}

BullBear ==
    {"strong_bull", "moderate_bull", "weak_bull", "weak_bear", "moderate_bear", "strong_bear"}

\* C2: a rating sequence (null and empty included) with fewer than 5 valid
\* points yields exactly the insufficient-data record, with data_points the
\* number of valid points; '-' and unmapped symbols are not counted, and the
\* regression is not attempted (the result is not calculation_error even where
\* the regression would raise).
C2_InsufficientData ==
    (pc = "done" /\ ValidCount(stock_ratings) < 5) =>
        /\ result.rtsi = 0
        /\ result.trend = "insufficient_data"
        /\ result.confidence = 0
        /\ result.slope = 0
        /\ result.r_squared = 0
        /\ result.recent_score = None
        /\ result.score_change_5d = None
        /\ result.data_points = ValidCount(stock_ratings)

\* a sequence of 6 symbols, 4 of them valid, with a '-' and an unmapped symbol
C2_Witness ==
    /\ pc = "done"
    /\ stock_ratings # None
    /\ Len(stock_ratings[1]) = 6
    /\ ValidCount(stock_ratings) = 4
    /\ \E i, j \in 1..6 : stock_ratings[1][i] = "-" /\ stock_ratings[1][j] = "N/A"
    /\ result.trend = "insufficient_data"
    /\ result.data_points = 4

\* C6: a successfully scored sequence has 0 <= rtsi <= 100, 0 <= confidence <= 1
\* and 0 <= r_squared <= 1, and rtsi is the weighted sum of consistency (0.4),
\* significance (0.3) and an amplitude in [0, 1] (0.3), up to the rounding of
\* the reported fields.
C6_Ranges ==
    (pc = "done" /\ Scored(result)) =>
        /\ ValidCount(stock_ratings) >= 5
        /\ 0 <= result.rtsi /\ result.rtsi <= 10000
        /\ 0 <= result.confidence /\ result.confidence <= 1000
        /\ 0 <= result.r_squared /\ result.r_squared <= 1000
        /\ result.rtsi >= 4 * result.r_squared + 3 * result.confidence - 3
        /\ result.rtsi <= 4 * result.r_squared + 3 * result.confidence + 3000 + 3

\* a scored sequence whose amplitude is capped: slope * n / 7 > 1
C6_Witness ==
    /\ pc = "done"
    /\ Scored(result)
    /\ result.slope * result.data_points > 7 * 10000
    /\ result.confidence > 0
    /\ result.rtsi > 9000

\* C10 as stated: confidence is 0 or at least 0.95; a bull or bear result has
\* confidence >= 0.95; a result with confidence 0 has trend 'neutral'.
C10_Original ==
    pc = "done" =>
        /\ result.confidence = 0 \/ result.confidence >= 950
        /\ result.trend \in BullBear => result.confidence >= 950
        /\ result.confidence = 0 => result.trend = "neutral"

\* C10 (amended): confidence is 0 or at least 0.95; a bull or bear result has
\* confidence >= 0.95; a result with confidence 0 has trend 'neutral', or is the
\* insufficient_data or the calculation_error record.
C10_Amended ==
    pc = "done" =>
        /\ result.confidence = 0 \/ result.confidence >= 950
        /\ result.trend \in BullBear => result.confidence >= 950
        /\ result.confidence = 0 =>
              result.trend \in {"neutral", "insufficient_data", "calculation_error"}
        /\ (result.confidence = 0 /\ Scored(result)) => result.trend = "neutral"

\* a steep but insignificant fit: slope > 0.15, confidence 0, hence neutral
C10_Witness ==
    /\ pc = "done"
    /\ Scored(result)
    /\ result.slope > 1500
    /\ result.confidence = 0
    /\ result.trend = "neutral"

\* ===================================================================
\* Properties of the classifier (SpecTrend)
\* ===================================================================
\* C7: _determine_trend_direction is the first-match-wins rule list
\*   significance < 0.3 -> neutral; slope > 0.15 and significance > 0.7 ->
\*   strong_bull; slope > 0.08 and significance > 0.5 -> moderate_bull;
\*   slope > 0.03 -> weak_bull; slope < -0.15 and significance > 0.7 ->
\*   strong_bear; slope < -0.08 and significance > 0.5 -> moderate_bear;
\*   slope < -0.03 -> weak_bear; otherwise neutral,
\* stated here as the seven disjoint regions the list cuts out (k is the slope
\* in hundredths, s the significance in thousandths).
C7_TrendRules ==
    pc = "done" =>
        LET k == arg_slope.num
            s == arg_significance
            t == trend_direction
        IN  /\ arg_slope.den = 100
            /\ t = "strong_bull" <=> (s > 700 /\ k > 15)
            /\ t = "moderate_bull" <=> (s > 500 /\ k > 8 /\ ~(s > 700 /\ k > 15))
            /\ t = "weak_bull" <=> (s >= 300 /\ k > 3 /\ ~(s > 500 /\ k > 8))
            /\ t = "strong_bear" <=> (s > 700 /\ k < -15)
            /\ t = "moderate_bear" <=> (s > 500 /\ k < -8 /\ ~(s > 700 /\ k < -15))
            /\ t = "weak_bear" <=> (s >= 300 /\ k < -3 /\ ~(s > 500 /\ k < -8))
            /\ t = "neutral" <=> (s < 300 \/ (-3 <= k /\ k <= 3))

\* priority at work: slope > 0.15 but significance only in (0.5, 0.7]
C7_Witness ==
    /\ pc = "done"
    /\ arg_slope.num > 15
    /\ arg_significance = 700
    /\ trend_direction = "moderate_bull"

\* ===================================================================
\* Properties of the ranking (SpecRank)
\* ===================================================================
\* the positions of the result set whose entry has rtsi > 0
ValidPositions == {i \in 1..Len(rtsi_results) : rtsi_results[i].value.rtsi > 0}

PositionOf(code) == CHOOSE i \in 1..Len(rtsi_results) : rtsi_results[i].key = code

\* position i comes before position j in the ranking order: higher rtsi first,
\* equal rtsi in the result set's iteration order
RanksBefore(i, j) ==
    \/ rtsi_results[i].value.rtsi > rtsi_results[j].value.rtsi
    \/ rtsi_results[i].value.rtsi = rtsi_results[j].value.rtsi /\ i < j

\* ranking is the first k entries of the result set's valid entries, in the
\* ranking order, as (code, name, rtsi, trend) tuples
IsTopOfValid(k) ==
    /\ Len(ranking) = k
    /\ \A j \in 1..Len(ranking) :
          /\ \E i \in ValidPositions : rtsi_results[i].key = ranking[j].stock_code
          /\ ranking[j].rtsi > 0
          /\ ranking[j].rtsi = rtsi_results[PositionOf(ranking[j].stock_code)].value.rtsi
          /\ ranking[j].trend = rtsi_results[PositionOf(ranking[j].stock_code)].value.trend
          /\ ranking[j].stock_name
                = rtsi_results[PositionOf(ranking[j].stock_code)].value.stock_name
    /\ \A j1, j2 \in 1..Len(ranking) :
          j1 < j2 => /\ ranking[j1].rtsi >= ranking[j2].rtsi
                     /\ RanksBefore(PositionOf(ranking[j1].stock_code),
                                    PositionOf(ranking[j2].stock_code))
    /\ \A i \in ValidPositions :
          (\A j \in 1..Len(ranking) : ranking[j].stock_code # rtsi_results[i].key)
             => \A j \in 1..Len(ranking) : RanksBefore(PositionOf(ranking[j].stock_code), i)

MinOf(a, b) == IF a <= b THEN a ELSE b

\* C4 as stated: with no trend filter, for every top_n the ranking is exactly
\* the first min(top_n, number of entries with rtsi > 0) entries of the valid
\* entries sorted by rtsi descending, ties in iteration order (no entries when
\* that minimum is not positive).
C4_Original ==
    (pc = "done" /\ trend_filter = None) =>
        LET k == MinOf(top_n, Cardinality(ValidPositions))
        IN  IsTopOfValid(IF k > 0 THEN k ELSE 0)

\* C4 (amended): the same, for every top_n >= 0.
C4_Amended ==
    (pc = "done" /\ trend_filter = None /\ top_n >= 0) =>
        IsTopOfValid(MinOf(top_n, Cardinality(ValidPositions)))

\* two tied valid entries after an entry with rtsi 0, cut to the top one: the
\* earlier of the two is returned
C4_Witness ==
    /\ pc = "done"
    /\ trend_filter = None
    /\ top_n = 1
    /\ Len(rtsi_results) = 3
    /\ rtsi_results[1].value.rtsi = 0
    /\ rtsi_results[2].value.rtsi = rtsi_results[3].value.rtsi
    /\ ValidPositions = {2, 3}
    /\ Len(ranking) = 1
    /\ ranking[1].stock_code = rtsi_results[2].key

SevenCategories ==
    {"strong_bull", "moderate_bull", "weak_bull", "neutral", "weak_bear", "moderate_bear",
     "strong_bear"}

\* C5: with trend_filter the name of one of the seven categories every returned
\* entry has exactly that trend; and with the filter 'up' ('down') every bull
\* (bear) entry with rtsi > 0 is eligible: it is returned when top_n does not
\* cut it off.
C5_TrendFilter ==
    pc = "done" =>
        /\ (trend_filter # None /\ trend_filter[1] \in SevenCategories) =>
              \A j \in 1..Len(ranking) : ranking[j].trend = trend_filter[1]
        /\ (trend_filter = Some("up") /\ top_n >= Len(rtsi_results)) =>
              \A i \in ValidPositions :
                  rtsi_results[i].value.trend \in {"strong_bull", "moderate_bull", "weak_bull"}
                     => \E j \in 1..Len(ranking) : ranking[j].stock_code = rtsi_results[i].key
        /\ (trend_filter = Some("down") /\ top_n >= Len(rtsi_results)) =>
              \A i \in ValidPositions :
                  rtsi_results[i].value.trend \in {"strong_bear", "moderate_bear", "weak_bear"}
                     => \E j \in 1..Len(ranking) : ranking[j].stock_code = rtsi_results[i].key

\* ===================================================================
\* Properties of the batch engine (SpecBatch)
\* ===================================================================
InputRows == IF stock_data = None THEN <<>> ELSE stock_data[1].rows

HasDateColumn ==
    stock_data # None
    /\ \E j \in 1..Len(stock_data[1].columns) : IsDateColumn(stock_data[1].columns[j])

InputCodes == {StockCode(stock_data[1], i) : i \in 1..Len(InputRows)}

ResultKeys == {batch.results[j].key : j \in 1..Len(batch.results)}

C3_Contained ==
    pc = "done" =>
        /\ batch.status = "returned"
        /\ HasDateColumn => ResultKeys = InputCodes
        /\ \A j \in 1..Len(batch.results) :
              batch.results[j].value.trend = "calculation_error" =>
                 /\ batch.results[j].value.rtsi = 0
                 /\ batch.results[j].value.confidence = 0
                 /\ "error" \in DOMAIN batch.results[j].value

\* ===================================================================
\* Properties of RTSICalculator (Spec)
\* ===================================================================
\* C8: calculate returns the insufficient_data result exactly when the sequence
\* has fewer than min_data_points valid points.
C8_Configurable ==
    op = "calculate" =>
        (result.trend = "insufficient_data" <=> ValidCount(stock_ratings) < min_data_points)

\* C9 as stated: a call of calculate on the rating sequence of the first call
\* returns the identical result record.
C9_Original ==
    (op = "calculate" /\ first_call # None /\ stock_ratings = first_call[1].ratings) =>
        result = first_call[1].result

SameButTime(r1, r2) ==
    [r1 EXCEPT !.calculation_time = 0] = [r2 EXCEPT !.calculation_time = 0]

\* C9 (amended): whatever operations come between, a call of calculate on the
\* rating sequence of the first call returns the same result record but for its
\* calculation_time field; calculate increments calculation_count by one,
\* reset_counter sets it to 0, no other operation changes it, and rating_map
\* and min_data_points never change.
C9_Amended ==
    [][/\ (op' = "calculate" /\ first_call # None /\ stock_ratings' = first_call[1].ratings)
             => SameButTime(result', first_call[1].result)
       /\ op' = "calculate" => calculation_count' = calculation_count + 1
       /\ op' = "reset_counter" => calculation_count' = 0
       /\ op' \notin {"calculate", "reset_counter"} => calculation_count' = calculation_count
       /\ rating_map' = rating_map
       /\ min_data_points' = min_data_points]_vars

\* a later call on the first call's sequence, after a reset of the counter,
\* scored the same but timed differently
C9_Witness ==
    /\ op = "calculate"
    /\ first_call # None
    /\ stock_ratings = first_call[1].ratings
    /\ Scored(result)
    /\ result # first_call[1].result
    /\ SameButTime(result, first_call[1].result)
    /\ calculation_count = 1

====
